---- MODULE Spec2Model ----
(***************************************************************************)
(* Model of the per-owner encrypted record store of "comovamiglucosa":     *)
(* app/db.py (SQLite tables users / settings / records), app/security.py   *)
(* (PIN hash and key derivation) and the session handlers of               *)
(* streamlit_app.py that call them.                                        *)
(*                                                                         *)
(* Two specifications share the variables:                                 *)
(*   Spec     the functions of app/db.py called with arbitrary arguments   *)
(*   AppSpec  the handlers of streamlit_app.py run by concurrent sessions  *)
(***************************************************************************)
EXTENDS Integers, Sequences, FiniteSets, TLC

VARIABLES schema, records_new, records, seq, users, settings, env_pepper, session, pc, out,
          clock, bundle, call

vars == <<schema, records_new, records, seq, users, settings, env_pepper, session, pc, out,
          clock, bundle, call>>

dbvars == <<schema, records_new, records, seq, users, settings>>

appvars == <<env_pepper, session, pc>>

\* the UTC clock, the share package last generated, and the last call of a function
\* that only computes
auxvars == <<clock, bundle, call>>

(***************************************************************************)
(* Bounds                                                                  *)
(***************************************************************************)
\* largest value the AUTOINCREMENT counter of records may reach
MaxId == 2

\* last hour the UTC clock reaches
MaxClock == 4

\* largest number of rows of the glucose table given to summarize_glucose
MaxReadings == 3

(***************************************************************************)
(* Python values and the JSON serializer                                   *)
(***************************************************************************)
PyNum(n) == [kind |-> "num", n |-> n, s |-> "", l |-> <<>>]

PyStr(s) == [kind |-> "str", n |-> 0, s |-> s, l |-> <<>>]

PyNone == [kind |-> "none", n |-> 0, s |-> "", l |-> <<>>]

PyList(l) == [kind |-> "list", n |-> 0, s |-> "", l |-> l]

\* json.dumps of one value: number, string, null or array of strings
JsonEncode(v) ==
    CASE v.kind = "num" -> [j |-> "number", n |-> v.n, s |-> "", l |-> <<>>]
      [] v.kind = "str" -> [j |-> "string", n |-> 0, s |-> v.s, l |-> <<>>]
      [] v.kind = "none" -> [j |-> "null", n |-> 0, s |-> "", l |-> <<>>]
      [] v.kind = "list" -> [j |-> "array", n |-> 0, s |-> "", l |-> v.l]

\* json.loads of one value
JsonDecode(t) ==
    CASE t.j = "number" -> PyNum(t.n)
      [] t.j = "string" -> PyStr(t.s)
      [] t.j = "null" -> PyNone
      [] t.j = "array" -> PyList(t.l)

\* json.dumps(payload, ensure_ascii=False).encode("utf-8"): the members of the object
JsonDumps(payload) == {[name |-> k, value |-> JsonEncode(payload[k])] : k \in DOMAIN payload}

\* json.loads(decrypted.decode("utf-8")): the dict of the members
JsonLoads(text) ==
    [k \in {m.name : m \in text} |-> JsonDecode((CHOOSE m \in text : m.name = k).value)]

(***************************************************************************)
(* app/security.py and the Fernet envelope                                 *)
(***************************************************************************)
\* no Fernet object (st.session_state.get("fernet") is None)
NoFernet == [secret |-> <<>>, salt |-> "", iterations |-> 0]

\* the character U+0000, one zero byte in UTF-8
NUL == "\\0"

\* hashlib.pbkdf2_hmac("sha256", password, ...) uses the password as the HMAC key,
\* and HMAC pads a key shorter than its 64-byte block with zero bytes: the key as
\* HMAC uses it is the password without the zero bytes at its end
RECURSIVE HmacKey(_)
HmacKey(password) ==
    IF password # <<>> /\ password[Len(password)] = NUL
    THEN HmacKey(SubSeq(password, 1, Len(password) - 1))
    ELSE password

\* hash_pin: PBKDF2-HMAC-SHA256 of the PIN under the salt, 200000 iterations
hash_pin(pin, salt) == [secret |-> HmacKey(pin), salt |-> salt, iterations |-> 200000]

\* verify_pin: recompute and compare
verify_pin(pin, salt, expected_hash) == hash_pin(pin, salt) = expected_hash

\* build_fernet: PBKDF2 of f"{pin}{pepper}" under the salt, 250000 iterations
build_fernet(pin, salt, pepper_) ==
    [secret |-> HmacKey(pin \o pepper_), salt |-> salt, iterations |-> 250000]

\* Fernet.encrypt: a token readable only under the key that made it
Encrypt(fernet, plaintext) == [key |-> fernet, plain |-> plaintext]

\* Fernet.decrypt: InvalidToken unless the token was made under this key
Decrypts(fernet, token) == token.key = fernet

Decrypt(fernet, token) == token.plain

(***************************************************************************)
(* Input domains                                                           *)
(***************************************************************************)
\* patient codes as stored (already stripped and lower-cased)
Owners == {"p1", "p2"}

\* owner value the migration of init_db gives to the rows of the old layout
LegacyOwner == "legacy"

\* the old layout has no owner column
NoColumn == "<no owner column>"

\* a missing optional argument (None); empty strings are falsy in the same tests
None == ""

RecordTypes == {"glucose", "hba1c", "event"}

\* timestamps: T1s is the same instant as T1 written with a space separator
T1s == "2024-01-01 08:00:00"

T1 == "2024-01-01T08:00:00"

T2 == "2024-01-02T08:00:00"

RecordedAts == {T1s, T1, T2}

\* position of a timestamp in SQLite's text order (BINARY collation): ' ' < 'T'
TextRank(t) == CASE t = T1s -> 1 [] t = T1 -> 2 [] t = T2 -> 3

\* PINs typed into the forms, as sequences of characters: a valid one, another
\* valid one, one that is too short, one with letters
Pin1234 == <<"1", "2", "3", "4">>

Pin5678 == <<"5", "6", "7", "8">>

\* PINs typed into the login form
LoginPins == {Pin1234, Pin5678}

\* PINs typed into the create-account form
CreatePins == {Pin1234, <<"1", "2", "3">>, <<"1", "2", "a", "b">>}

\* what is typed as confirmation: the same PIN, or another one
ConfirmPins(pin) == {pin, Pin5678}

\* values generate_salt may return
Salts == {"s1", "s2"}

\* values of the environment variable APP_PEPPER: unset (or empty), or set
EnvPeppers == {<<>>, <<"x", "y">>}

\* the literal "change-me-before-production", abbreviated
DefaultPepper == <<"c", "h", "a", "n", "g", "e", "-", "m", "e">>

\* keys the callers of app/db.py may hold
ApiKeys == {build_fernet(Pin1234, "s1", DefaultPepper), build_fernet(Pin5678, "s2", DefaultPepper)}

\* key of the single-tenant installation that wrote the old layout
LegacyKey == build_fernet(<<"0", "0", "0", "0">>, "s0", DefaultPepper)

\* payloads given to save_record by callers of app/db.py; the second one carries
\* the names load_records also uses for the cleartext columns
ApiPayloads ==
    { [value_mg_dl |-> PyNum(90), notes |-> PyStr("ok"), insulin_units |-> PyNone,
       meds_taken |-> PyList(<<"Insulina">>)],
      [value_mg_dl |-> PyNum(110), owner |-> PyStr("p2"), id |-> PyNum(9),
       record_type |-> PyStr("event"), recorded_at |-> PyStr(T2)] }

(***************************************************************************)
(* app/db.py: table records                                                *)
(***************************************************************************)
Triple(r) == <<r.owner, r.record_type, r.recorded_at>>

\* UNIQUE(owner, record_type, recorded_at) of CREATE TABLE records
UniqueTriples(rows) == \A r1, r2 \in rows : Triple(r1) = Triple(r2) => r1 = r2

\* INTEGER PRIMARY KEY
UniqueIds(rows) == \A r1, r2 \in rows : r1.id = r2.id => r1 = r2

MaxOf(S) == IF S = {} THEN 0 ELSE CHOOSE m \in S : \A x \in S : x <= m

\* rows a legacy (single-tenant) installation may hold before init_db runs
LegacyRow(id, type, at) ==
    [id |-> id, owner |-> NoColumn, record_type |-> type, recorded_at |-> at,
     payload_encrypted |-> Encrypt(LegacyKey, JsonDumps([value_mg_dl |-> PyNum(90)]))]

LegacyStores ==
    { {},
      {LegacyRow(1, "glucose", T1)},
      {LegacyRow(1, "glucose", T1), LegacyRow(2, "hba1c", T1)},
      {LegacyRow(1, "glucose", T1), LegacyRow(2, "glucose", T1)} }

\* has_duplicate that never adds AND id != ?
has_duplicate_no_exclude(owner, record_type, recorded_at, exclude_id) ==
    \E r \in records :
        /\ r.owner = owner
        /\ r.record_type = record_type
        /\ r.recorded_at = recorded_at

\* has_duplicate(owner, record_type, recorded_at, exclude_id); 0 stands for None
has_duplicate(owner, record_type, recorded_at, exclude_id) ==
    \E r \in records :
        /\ r.owner = owner
        /\ r.record_type = record_type
        /\ r.recorded_at = recorded_at
        /\ (exclude_id # 0 => r.id # exclude_id)

\* the row save_record writes
NewRow(id, owner, record_type, recorded_at, payload, fernet) ==
    [id |-> id, owner |-> owner, record_type |-> record_type, recorded_at |-> recorded_at,
     payload_encrypted |-> Encrypt(fernet, JsonDumps(payload))]

\* save_record without the UNIQUE constraint of the table
save_record_no_unique(owner, record_type, recorded_at, payload, fernet, record_id) ==
    IF schema # "scoped"
    THEN [status |-> "OperationalError", records |-> records, seq |-> seq, ret |-> 0]
    ELSE IF record_id = 0
    THEN [status |-> "ok",
          records |-> records \cup {NewRow(seq + 1, owner, record_type, recorded_at, payload, fernet)},
          seq |-> seq + 1, ret |-> seq + 1]
    ELSE IF \A r \in records : r.id # record_id
    THEN [status |-> "ok", records |-> records, seq |-> seq, ret |-> record_id]
    ELSE [status |-> "ok",
          records |-> {r \in records : r.id # record_id}
                        \cup {NewRow(record_id, owner, record_type, recorded_at, payload, fernet)},
          seq |-> seq, ret |-> record_id]

\* save_record: INSERT when record_id is None (0 here), UPDATE ... WHERE id = ? otherwise.
\* Result: the status, the table, the AUTOINCREMENT counter and the returned id.
save_record(owner, record_type, recorded_at, payload, fernet, record_id) ==
    IF schema # "scoped"
    THEN [status |-> "OperationalError", records |-> records, seq |-> seq, ret |-> 0]
    ELSE IF record_id = 0
    THEN IF \E r \in records : Triple(r) = <<owner, record_type, recorded_at>>
         THEN [status |-> "IntegrityError", records |-> records, seq |-> seq, ret |-> 0]
         ELSE [status |-> "ok",
               records |-> records \cup {NewRow(seq + 1, owner, record_type, recorded_at, payload, fernet)},
               seq |-> seq + 1, ret |-> seq + 1]
    ELSE IF \A r \in records : r.id # record_id
    THEN [status |-> "ok", records |-> records, seq |-> seq, ret |-> record_id]
    ELSE IF \E r \in records : r.id # record_id /\ Triple(r) = <<owner, record_type, recorded_at>>
    THEN [status |-> "IntegrityError", records |-> records, seq |-> seq, ret |-> 0]
    ELSE [status |-> "ok",
          records |-> {r \in records : r.id # record_id}
                        \cup {NewRow(record_id, owner, record_type, recorded_at, payload, fernet)},
          seq |-> seq, ret |-> record_id]

\* delete_record that never adds AND owner = ?
delete_record_unscoped(record_id, owner) ==
    IF schema = "none"
    THEN [status |-> "OperationalError", records |-> records]
    ELSE [status |-> "ok", records |-> {r \in records : r.id # record_id}]

\* delete_record: DELETE FROM records WHERE id = ? [AND owner = ?]
delete_record(record_id, owner) ==
    IF schema = "none" \/ (schema = "legacy" /\ owner # None)
    THEN [status |-> "OperationalError", records |-> records]
    ELSE [status |-> "ok",
          records |-> {r \in records : ~(r.id = record_id /\ (owner # None => r.owner = owner))}]

\* rows selected by load_records: WHERE owner = ? [AND record_type = ?]
Selected(owner, record_type) ==
    {r \in records : r.owner = owner /\ (record_type # None => r.record_type = record_type)}

\* the dict load_records builds for one row: the cleartext columns, then **payload
LoadedRow(r, fernet) ==
    LET payload == JsonLoads(Decrypt(fernet, r.payload_encrypted))
        columns == [id |-> PyNum(r.id), owner |-> PyStr(r.owner),
                    record_type |-> PyStr(r.record_type), recorded_at |-> PyStr(r.recorded_at)]
    IN  [k \in DOMAIN columns \cup DOMAIN payload |->
            IF k \in DOMAIN payload THEN payload[k] ELSE columns[k]]

\* the orders ORDER BY recorded_at DESC may give to a set of rows
Orderings(rows) ==
    {f \in [1..Cardinality(rows) -> rows] :
        /\ \A i, j \in 1..Cardinality(rows) : i # j => f[i] # f[j]
        /\ \A i, j \in 1..Cardinality(rows) :
              i < j => TextRank(f[i].recorded_at) >= TextRank(f[j].recorded_at)}

\* outcome of load_records: fernet.decrypt raises InvalidToken at the first row
\* it cannot authenticate, and nothing is returned
load_status(owner, fernet, record_type) ==
    IF schema # "scoped" THEN "OperationalError"
    ELSE IF \E r \in Selected(owner, record_type) : ~Decrypts(fernet, r.payload_encrypted)
    THEN "InvalidToken"
    ELSE "ok"

\* load_records that skips the rows it cannot decrypt
load_records_skip(owner, fernet, record_type) ==
    IF schema # "scoped" THEN {}
    ELSE {[i \in DOMAIN f |-> LoadedRow(f[i], fernet)] :
            f \in Orderings({r \in Selected(owner, record_type) : Decrypts(fernet, r.payload_encrypted)})}

\* the lists load_records may return when it returns
load_records(owner, fernet, record_type) ==
    IF load_status(owner, fernet, record_type) # "ok" THEN {}
    ELSE {[i \in DOMAIN f |-> LoadedRow(f[i], fernet)] : f \in Orderings(Selected(owner, record_type))}

\* init_db on the table records: create it, or migrate the old layout
init_db ==
    CASE schema = "none" ->
            [status |-> "ok", schema |-> "scoped", records_new |-> records_new,
             records |-> {}, seq |-> 0]
      [] schema = "scoped" ->
            [status |-> "ok", schema |-> schema, records_new |-> records_new,
             records |-> records, seq |-> seq]
      [] schema = "legacy" /\ records_new ->
            [status |-> "OperationalError", schema |-> schema, records_new |-> records_new,
             records |-> records, seq |-> seq]
      [] schema = "legacy" /\ ~records_new ->
            LET moved == {[r EXCEPT !.owner = LegacyOwner] : r \in records}
            IN  IF UniqueTriples(moved)
                THEN [status |-> "ok", schema |-> "scoped", records_new |-> FALSE,
                      records |-> moved, seq |-> MaxOf({r.id : r \in moved})]
                ELSE [status |-> "IntegrityError", schema |-> schema, records_new |-> TRUE,
                      records |-> records, seq |-> seq]

\* reset_local_data: DELETE FROM records, settings, users in one transaction
reset_local_data ==
    IF schema # "scoped"
    THEN [status |-> "OperationalError", records |-> records, settings |-> settings, users |-> users]
    ELSE [status |-> "ok", records |-> {}, settings |-> <<>>, users |-> <<>>]

\* what the last call was and how it ended: the function, its owner and record id
\* arguments (None, 0 when it has none) and the status (ok or the exception raised)
Outcome(op, who, id, status) == [op |-> op, who |-> who, id |-> id, status |-> status]

\* no share package has been generated
NoBundle == [key |-> "", token |-> Encrypt("", {}), data |-> <<>>, at |-> 0, hours |-> 0]

\* no function has been called
NoCall == [fn |-> "none", args |-> <<>>, result |-> <<>>]

(***************************************************************************)
(* Spec: the functions of app/db.py called with arbitrary arguments        *)
(***************************************************************************)
NoSession == [authenticated |-> FALSE, fernet |-> NoFernet, patient_code |-> None, patient_name |-> None]

Sessions == {1, 2}

\* fields of the selected row the edit form copies into the new payload
NoKept == [symptoms |-> PyNone, meds_taken |-> PyNone, insulin_units |-> PyNone, dose |-> PyNone]

\* position of a session's script run: idle between runs, or inside the edit
\* handler before has_duplicate ("check") or before save_record ("save")
Idle == [stage |-> "idle", id |-> 0, at |-> None, kept |-> NoKept]

Init ==
    /\ \/ schema = "none" /\ records = {}
       \/ schema = "legacy" /\ records \in LegacyStores
    /\ records_new = FALSE
    /\ seq = MaxOf({r.id : r \in records})
    /\ users = <<>>
    /\ settings = <<>>
    /\ env_pepper = <<>>
    /\ session = [s \in Sessions |-> NoSession]
    /\ pc = [s \in Sessions |-> Idle]
    /\ out = Outcome("start", None, 0, "ok")
    /\ clock = 0
    /\ bundle = NoBundle
    /\ call = NoCall

InitDb ==
    LET res == init_db
    IN  /\ schema' = res.schema
        /\ records_new' = res.records_new
        /\ records' = res.records
        /\ seq' = res.seq
        /\ out' = Outcome("init_db", None, 0, res.status)
        /\ UNCHANGED <<users, settings, env_pepper, session, pc, auxvars>>

SaveRecord(owner, record_type, recorded_at, payload, fernet, record_id) ==
    LET res == save_record(owner, record_type, recorded_at, payload, fernet, record_id)
    IN  /\ record_id = 0 => seq < MaxId
        /\ records' = res.records
        /\ seq' = res.seq
        /\ out' = Outcome(IF record_id = 0 THEN "insert" ELSE "update", owner, record_id, res.status)
        /\ UNCHANGED <<schema, records_new, users, settings, env_pepper, session, pc, auxvars>>

DeleteRecord(record_id, owner) ==
    LET res == delete_record(record_id, owner)
    IN  /\ records' = res.records
        /\ out' = Outcome("delete_record", owner, record_id, res.status)
        /\ UNCHANGED <<schema, records_new, seq, users, settings, env_pepper, session, pc, auxvars>>

LoadRecords(owner, fernet, record_type) ==
    /\ out' = Outcome("load_records", owner, 0, load_status(owner, fernet, record_type))
    /\ UNCHANGED <<dbvars, appvars, auxvars>>

HasDuplicate(owner, record_type, recorded_at, exclude_id) ==
    /\ schema = "scoped"
    /\ out' = Outcome("has_duplicate", owner, 0,
                      IF has_duplicate(owner, record_type, recorded_at, exclude_id) THEN "True" ELSE "False")
    /\ UNCHANGED <<dbvars, appvars, auxvars>>

ResetLocalData ==
    LET res == reset_local_data
    IN  /\ records' = res.records
        /\ settings' = res.settings
        /\ users' = res.users
        /\ out' = Outcome("reset_local_data", None, 0, res.status)
        /\ UNCHANGED <<schema, records_new, seq, env_pepper, session, pc, auxvars>>

ApiOwners == Owners \cup {LegacyOwner}

ApiTypes == {"glucose", "hba1c"}

ApiTimes == {T1}

Next ==
    \/ InitDb
    \/ \E o \in Owners, t \in ApiTypes, at \in ApiTimes, p \in ApiPayloads, k \in ApiKeys,
          id \in 0..MaxId : SaveRecord(o, t, at, p, k, id)
    \/ \E id \in 1..MaxId, o \in ApiOwners \cup {None} : DeleteRecord(id, o)
    \/ \E o \in ApiOwners, k \in ApiKeys, t \in ApiTypes \cup {None} : LoadRecords(o, k, t)
    \/ \E o \in Owners, t \in ApiTypes, at \in ApiTimes, id \in 0..MaxId :
          HasDuplicate(o, t, at, id)
    \/ ResetLocalData

Spec == Init /\ [][Next]_vars

TypeOK ==
    /\ schema \in {"none", "legacy", "scoped"}
    /\ seq \in 0..MaxId
    /\ UniqueIds(records)
    /\ \A r \in records : r.id \in 1..seq

(***************************************************************************)
(* app/db.py: tables users and settings                                    *)
(***************************************************************************)
\* _scoped_key
scoped_key(key, owner) == IF owner # None THEN "user:" \o owner \o ":" \o key ELSE key

\* set_setting on the table st: INSERT ... ON CONFLICT(key) DO UPDATE
set_setting(st, key, value, owner) ==
    [k \in DOMAIN st \cup {scoped_key(key, owner)} |->
        IF k = scoped_key(key, owner) THEN value ELSE st[k]]

\* get_setting on the table st
get_setting(st, key, default, owner) ==
    IF scoped_key(key, owner) \in DOMAIN st THEN st[scoped_key(key, owner)] ELSE default

\* a get_user that finds no row
get_user_none(patient_code) == FALSE

\* get_user: the row or nothing
HasUser(patient_code) == patient_code \in DOMAIN users

\* create_user: INSERT INTO users (the caller has checked get_user)
create_user(patient_code, patient_name, pin_salt, pin_hash) ==
    [c \in DOMAIN users \cup {patient_code} |->
        IF c = patient_code
        THEN [patient_name |-> patient_name, pin_salt |-> pin_salt, pin_hash |-> pin_hash,
              consent |-> "true"]
        ELSE users[c]]

(***************************************************************************)
(* app/validation.py                                                       *)
(***************************************************************************)
Digits == {"0", "1", "2", "3", "4", "5", "6", "7", "8", "9"}

\* a validate_pin that tests the length only
validate_pin_length_only(pin) == ~(Len(pin) < 4)

\* validate_pin: at least 4 characters, all of them digits
validate_pin(pin) == ~(Len(pin) < 4) /\ (\A i \in 1..Len(pin) : pin[i] \in Digits)

\* the message validate_pin returns with its verdict
validate_pin_message(pin) ==
    IF Len(pin) < 4 THEN "El PIN debe tener al menos 4 digitos."
    ELSE IF ~(\A i \in 1..Len(pin) : pin[i] \in Digits) THEN "El PIN debe contener solo numeros."
    ELSE ""

\* a validate_glucose_value without the upper limit
validate_glucose_value_no_upper(value) == ~(value < 20)

\* validate_glucose_value
validate_glucose_value(value) == ~(value < 20 \/ value > 600)

(***************************************************************************)
(* streamlit_app.py: sessions                                              *)
(***************************************************************************)
\* get_app_pepper: the environment variable when set, else the default
get_app_pepper == IF env_pepper # <<>> THEN env_pepper ELSE DefaultPepper

\* text typed as patient code into the login form
LoginCodes == {"p1", " P1 ", "p2"}

\* text typed as patient code into the create-account form
CreateCodes == {"p1", " P1 ", "p 2", ""}

\* .strip().lower() on the typed codes
StripLower(raw) == IF raw = " P1 " THEN "p1" ELSE raw

\* code_valid: not empty, only letters, digits, '-' and '_'
code_valid(patient_code) == patient_code # "" /\ patient_code # "p 2"

\* text typed as patient name
RawNames == {" "}

\* patient_name.strip() or patient_code
NameOr(raw, patient_code) == IF raw = " " THEN patient_code ELSE raw

\* the test at the top of ensure_authentication
Authenticated(s) ==
    /\ session[s].authenticated
    /\ session[s].fernet # NoFernet
    /\ session[s].patient_code # None

LoggedIn(patient_code, patient_name, fernet) ==
    [authenticated |-> TRUE, fernet |-> fernet, patient_code |-> patient_code,
     patient_name |-> patient_name]

\* a login that derives the key under a salt of its own instead of the stored one
login_fernet_new_salt(pin, user) == build_fernet(pin, "s-login", get_app_pepper)

\* the key the login handler puts into the session
login_fernet(pin, user) == build_fernet(pin, user.pin_salt, get_app_pepper)

\* login_form submitted
Login(s, raw, pin) ==
    LET patient_code == StripLower(raw)
    IN  /\ ~Authenticated(s)
        /\ pc[s] = Idle
        /\ IF ~HasUser(patient_code)
           THEN /\ out' = Outcome("login", patient_code, 0, "no_user")
                /\ UNCHANGED session
           ELSE IF verify_pin(pin, users[patient_code].pin_salt, users[patient_code].pin_hash)
           THEN /\ session' = [session EXCEPT ![s] =
                        LoggedIn(patient_code, users[patient_code].patient_name,
                                 login_fernet(pin, users[patient_code]))]
                /\ out' = Outcome("login", patient_code, 0, "ok")
           ELSE /\ out' = Outcome("login", patient_code, 0, "bad_pin")
                /\ UNCHANGED session
        /\ UNCHANGED <<dbvars, env_pepper, pc, auxvars>>

\* create_patient_form submitted; salt is what generate_salt returns
CreateAccount(s, raw, raw_name, pin, pin_confirm, accepted, salt) ==
    LET patient_code == StripLower(raw)
        status == IF ~code_valid(patient_code) THEN "bad_code"
                  ELSE IF HasUser(patient_code) THEN "exists"
                  ELSE IF ~validate_pin(pin) THEN "bad_pin"
                  ELSE IF pin # pin_confirm THEN "pin_mismatch"
                  ELSE IF ~accepted THEN "no_consent"
                  ELSE "ok"
    IN  /\ ~Authenticated(s)
        /\ pc[s] = Idle
        /\ \A c \in DOMAIN users : users[c].pin_salt # salt
        /\ out' = Outcome("create_account", patient_code, 0, status)
        /\ IF status = "ok"
           THEN /\ users' = create_user(patient_code, NameOr(raw_name, patient_code), salt,
                                        hash_pin(pin, salt))
                /\ settings' =
                      set_setting(
                        set_setting(
                          set_setting(
                            set_setting(settings, "doctor_targets", "70,180,70,250", patient_code),
                            "reminders", "08:00,90", patient_code),
                          "medications", "[]", patient_code),
                        "age", "30", patient_code)
                /\ session' = [session EXCEPT ![s] =
                        LoggedIn(patient_code, NameOr(raw_name, patient_code),
                                 build_fernet(pin, salt, get_app_pepper))]
           ELSE UNCHANGED <<users, settings, session>>
        /\ UNCHANGED <<schema, records_new, records, seq, env_pepper, pc, auxvars>>

\* sidebar button "Cambiar de paciente / Crear otro"
LogoutSwitch(s) ==
    /\ Authenticated(s)
    /\ pc[s] = Idle
    /\ session' = [session EXCEPT ![s] = NoSession]
    /\ out' = Outcome("logout_switch", session[s].patient_code, 0, "ok")
    /\ UNCHANGED <<dbvars, env_pepper, pc, auxvars>>

\* a logout that leaves the key in st.session_state
LogoutClose_keeps_key(s) ==
    /\ Authenticated(s)
    /\ pc[s] = Idle
    /\ session' = [session EXCEPT ![s].authenticated = FALSE]
    /\ out' = Outcome("logout_close", session[s].patient_code, 0, "ok")
    /\ UNCHANGED <<dbvars, env_pepper, pc, auxvars>>

\* sidebar button "Cerrar sesion"
LogoutClose(s) ==
    /\ Authenticated(s)
    /\ pc[s] = Idle
    /\ session' = [session EXCEPT ![s] = NoSession]
    /\ out' = Outcome("logout_close", session[s].patient_code, 0, "ok")
    /\ UNCHANGED <<dbvars, env_pepper, pc, auxvars>>

\* the server process is started again, possibly under another APP_PEPPER:
\* st.session_state of every session is gone
Restart(env) ==
    /\ env_pepper' = env
    /\ session' = [s \in Sessions |-> NoSession]
    /\ pc' = [s \in Sessions |-> Idle]
    /\ out' = Outcome("restart", None, 0, "ok")
    /\ UNCHANGED <<dbvars, auxvars>>

(***************************************************************************)
(* streamlit_app.py: record handlers                                       *)
(***************************************************************************)
\* glucose values the new-glucose form submits: the default of the widget, and one
\* above the range
GlucoseValues == {110, 601}

\* glucose values typed into the edit form
EditValues == {90}

\* datetime.now().isoformat(timespec="seconds")
NowValues == {T1, T2}

\* payload of the new-glucose form with the optional inputs left empty
GlucosePayload(value) ==
    [value_mg_dl |-> PyNum(value), context |-> PyStr("Glucosa al azar"), symptoms |-> PyStr(""),
     meds_taken |-> PyList(<<>>), insulin_units |-> PyNone, dose |-> PyStr(""),
     notes |-> PyStr("")]

\* payload of the edit form: new value, context and notes, the rest as selected
EditPayload(value, kept) ==
    [value_mg_dl |-> PyNum(value), context |-> PyStr("Glucosa al azar"), symptoms |-> kept.symptoms,
     meds_taken |-> kept.meds_taken, insulin_units |-> kept.insulin_units, dose |-> kept.dose,
     notes |-> PyStr("edited")]

\* pd.to_datetime(recorded_at).isoformat()
Isoformat(at) == IF at = T1s THEN T1 ELSE at

\* the loads of the tabs "Resumen" and "Historial" all returned
LoadsOk(s) == load_status(session[s].patient_code, session[s].fernet, None) = "ok"

\* glucose_form submitted
GlucoseForm(s, value, now) ==
    /\ Authenticated(s)
    /\ pc[s] = Idle
    /\ seq < MaxId
    /\ IF ~validate_glucose_value(value)
       THEN /\ out' = Outcome("glucose_form", session[s].patient_code, 0, "invalid")
            /\ UNCHANGED <<records, seq>>
       ELSE LET res == save_record(session[s].patient_code, "glucose", now, GlucosePayload(value),
                                   session[s].fernet, 0)
            IN  /\ records' = res.records
                /\ seq' = res.seq
                /\ out' = Outcome("glucose_form", session[s].patient_code, 0, res.status)
    /\ UNCHANGED <<schema, records_new, users, settings, appvars, auxvars>>

\* a script run without any submitted form: the tabs load the records
View(s) ==
    /\ Authenticated(s)
    /\ pc[s] = Idle
    /\ out' = Outcome("view", session[s].patient_code, 0,
                      load_status(session[s].patient_code, session[s].fernet, None))
    /\ UNCHANGED <<dbvars, appvars, auxvars>>

\* edit_glucose_form submitted for the selected glucose record: the handler is
\* entered with the row the tab loaded
EditBegin(s, r) ==
    /\ Authenticated(s)
    /\ pc[s] = Idle
    /\ LoadsOk(s)
    /\ r \in Selected(session[s].patient_code, "glucose")
    /\ LET row == LoadedRow(r, session[s].fernet)
       IN  pc' = [pc EXCEPT ![s] =
                    [stage |-> "check", id |-> row["id"].n, at |-> Isoformat(row["recorded_at"].s),
                     kept |-> [symptoms |-> row["symptoms"], meds_taken |-> row["meds_taken"],
                               insulin_units |-> row["insulin_units"], dose |-> row["dose"]]]]
    /\ out' = Outcome("edit_begin", session[s].patient_code, 0, "ok")
    /\ UNCHANGED <<dbvars, env_pepper, session, auxvars>>

\* the edit handler calls has_duplicate
EditCheck(s) ==
    /\ pc[s].stage = "check"
    /\ IF has_duplicate(session[s].patient_code, "glucose", pc[s].at, pc[s].id)
       THEN /\ pc' = [pc EXCEPT ![s] = Idle]
            /\ out' = Outcome("edit_check", session[s].patient_code, 0, "duplicate")
       ELSE /\ pc' = [pc EXCEPT ![s] = [pc[s] EXCEPT !.stage = "save"]]
            /\ out' = Outcome("edit_check", session[s].patient_code, 0, "ok")
    /\ UNCHANGED <<dbvars, env_pepper, session, auxvars>>

\* the edit handler calls save_record with the id of the selected record
EditSave(s, value) ==
    LET res == save_record(session[s].patient_code, "glucose", pc[s].at,
                           EditPayload(value, pc[s].kept), session[s].fernet, pc[s].id)
    IN  /\ pc[s].stage = "save"
        /\ records' = res.records
        /\ seq' = res.seq
        /\ pc' = [pc EXCEPT ![s] = Idle]
        /\ out' = Outcome("edit_save", session[s].patient_code, 0, res.status)
        /\ UNCHANGED <<schema, records_new, users, settings, env_pepper, session, auxvars>>

\* "Eliminar seleccionado" pressed for a record of the loaded list
DeleteSelected(s, r) ==
    LET res == delete_record(LoadedRow(r, session[s].fernet)["id"].n, session[s].patient_code)
    IN  /\ Authenticated(s)
        /\ pc[s] = Idle
        /\ LoadsOk(s)
        /\ r \in Selected(session[s].patient_code, None)
        /\ records' = res.records
        /\ out' = Outcome("delete_selected", session[s].patient_code, 0, res.status)
        /\ UNCHANGED <<schema, records_new, seq, users, settings, appvars, auxvars>>

\* state after the first script run has called init_db on a fresh installation
AppInit ==
    /\ schema = "scoped"
    /\ records_new = FALSE
    /\ records = {}
    /\ seq = 0
    /\ users = <<>>
    /\ settings = <<>>
    /\ env_pepper \in EnvPeppers
    /\ session = [s \in Sessions |-> NoSession]
    /\ pc = [s \in Sessions |-> Idle]
    /\ out = Outcome("start", None, 0, "ok")
    /\ clock = 0
    /\ bundle = NoBundle
    /\ call = NoCall

AppNext ==
    \/ \E s \in Sessions, raw \in LoginCodes, pin \in LoginPins : Login(s, raw, pin)
    \/ \E s \in Sessions, raw \in CreateCodes, raw_name \in RawNames, pin \in CreatePins :
          \E pin_confirm \in ConfirmPins(pin), accepted \in BOOLEAN, salt \in Salts :
              CreateAccount(s, raw, raw_name, pin, pin_confirm, accepted, salt)
    \/ \E s \in Sessions : LogoutSwitch(s)
    \/ \E s \in Sessions : LogoutClose(s)
    \/ \E env \in EnvPeppers : Restart(env)
    \/ \E s \in Sessions, value \in GlucoseValues, now \in NowValues : GlucoseForm(s, value, now)
    \/ \E s \in Sessions : View(s)
    \/ \E s \in Sessions, r \in records : EditBegin(s, r)
    \/ \E s \in Sessions : EditCheck(s)
    \/ \E s \in Sessions, value \in EditValues : EditSave(s, value)
    \/ \E s \in Sessions, r \in records : DeleteSelected(s, r)

AppSpec == AppInit /\ [][AppNext]_vars

(***************************************************************************)
(* app/exporters.py and the tab "Exportar y compartir": share packages      *)
(* ShareSpec: packages are generated and opened while the UTC clock runs    *)
(***************************************************************************)
\* datetime values are whole hours since an epoch; isoformat() writes date and time
DatetimeIsoformat(t) == [date |-> t \div 24, time |-> t % 24]

\* datetime.fromisoformat
FromIsoformat(text) == text.date * 24 + text.time

\* keys Fernet.generate_key may return
ShareKeys == {"k1", "k2"}

\* text typed as "Clave del paquete": a generated key, or text that is no Fernet key
InputKeys == ShareKeys \cup {"not-a-key"}

\* values of the slider "Validez del paquete (horas)" (1..168)
ValidHours == {1, 2}

\* the dict given as data: with and without a patient name
ShareData ==
    { [patient_name |-> PyStr("Ana"), age |-> PyNum(30), glucose |-> PyList(<<>>)],
      [age |-> PyNum(41)] }

\* build_encrypted_share_payload(data, valid_hours) at time now, key being what
\* Fernet.generate_key returned: the key and the token
build_encrypted_share_payload(data, valid_hours, now, key) ==
    [key |-> key,
     token |-> Encrypt(key, [expires_at |-> DatetimeIsoformat(now + valid_hours),
                             data |-> JsonDumps(data)])]

\* an expiry test that never refuses
share_expired_never(now, expires_at) == FALSE

\* datetime.utcnow() > expires_at
share_expired(now, expires_at) == now > expires_at

\* the handler of "Descifrar paquete" at time now: any exception (a text that is no
\* key, InvalidToken) gives the same error message
open_share(token, input_key, now) ==
    IF input_key \notin ShareKeys \/ ~Decrypts(input_key, token)
    THEN [status |-> "undecipherable", data |-> <<>>, patient_name |-> "", expires_at |-> 0]
    ELSE LET unpacked == Decrypt(input_key, token)
             expires_at == FromIsoformat(unpacked.expires_at)
             data == JsonLoads(unpacked.data)
         IN  IF share_expired(now, expires_at)
             THEN [status |-> "expired", data |-> data, patient_name |-> "", expires_at |-> expires_at]
             ELSE [status |-> "valid", data |-> data,
                   patient_name |-> IF "patient_name" \in DOMAIN data
                                    THEN data["patient_name"].s ELSE "",
                   expires_at |-> expires_at]

ShareInit ==
    /\ schema = "scoped"
    /\ records_new = FALSE
    /\ records = {}
    /\ seq = 0
    /\ users = <<>>
    /\ settings = <<>>
    /\ env_pepper = <<>>
    /\ session = [s \in Sessions |-> NoSession]
    /\ pc = [s \in Sessions |-> Idle]
    /\ out = Outcome("start", None, 0, "ok")
    /\ clock = 0
    /\ bundle = NoBundle
    /\ call = NoCall

\* an hour passes
Tick ==
    /\ clock < MaxClock
    /\ clock' = clock + 1
    /\ UNCHANGED <<dbvars, appvars, out, bundle, call>>

\* "Generar paquete cifrado" pressed
GenerateShare(data, valid_hours, key) ==
    LET built == build_encrypted_share_payload(data, valid_hours, clock, key)
    IN  /\ bundle' = [key |-> built.key, token |-> built.token, data |-> data, at |-> clock,
                      hours |-> valid_hours]
        /\ UNCHANGED <<dbvars, appvars, out, clock, call>>

\* "Descifrar paquete" pressed with the generated file uploaded and a key typed
OpenShare(input_key) ==
    /\ bundle # NoBundle
    /\ call' = [fn |-> "open_share",
                args |-> [bundle |-> bundle, input_key |-> input_key, now |-> clock],
                result |-> open_share(bundle.token, input_key, clock)]
    /\ UNCHANGED <<dbvars, appvars, out, clock, bundle>>

ShareNext ==
    \/ Tick
    \/ \E data \in ShareData, valid_hours \in ValidHours, key \in ShareKeys :
          GenerateShare(data, valid_hours, key)
    \/ \E input_key \in InputKeys : OpenShare(input_key)

ShareSpec == ShareInit /\ [][ShareNext]_vars

(***************************************************************************)
(* SettingsSpec: get_setting and set_setting called with arbitrary         *)
(* arguments                                                               *)
(***************************************************************************)
\* key names given to get_setting and set_setting
SettingKeys == {"age", "user:p1:age"}

\* owner arguments: none, or a patient code
SettingOwners == {None, "p1", "p2"}

SettingValues == {"30", "99"}

SettingsInit ==
    /\ schema = "scoped"
    /\ records_new = FALSE
    /\ records = {}
    /\ seq = 0
    /\ users = <<>>
    /\ settings = <<>>
    /\ env_pepper = <<>>
    /\ session = [s \in Sessions |-> NoSession]
    /\ pc = [s \in Sessions |-> Idle]
    /\ out = Outcome("start", None, 0, "ok")
    /\ clock = 0
    /\ bundle = NoBundle
    /\ call = NoCall

SetSetting(key, value, owner) ==
    /\ settings' = set_setting(settings, key, value, owner)
    /\ call' = [fn |-> "set_setting", args |-> [key |-> key, owner |-> owner, value |-> value],
                result |-> None]
    /\ UNCHANGED <<schema, records_new, records, seq, users, appvars, out, clock, bundle>>

GetSetting(key, owner) ==
    /\ call' = [fn |-> "get_setting", args |-> [key |-> key, owner |-> owner, value |-> None],
                result |-> get_setting(settings, key, None, owner)]
    /\ UNCHANGED <<dbvars, appvars, out, clock, bundle>>

SettingsNext ==
    \/ \E key \in SettingKeys, value \in SettingValues, owner \in SettingOwners :
          SetSetting(key, value, owner)
    \/ \E key \in SettingKeys, owner \in SettingOwners : GetSetting(key, owner)

SettingsSpec == SettingsInit /\ [][SettingsNext]_vars

(***************************************************************************)
(* SecuritySpec: hash_pin and verify_pin called on PINs and salts          *)
(***************************************************************************)
\* PINs given to hash_pin and verify_pin: those of the forms, the empty text, and a
\* PIN followed by the character U+0000
PinInputs == LoginPins \cup CreatePins \cup {<<>>, Pin1234 \o <<NUL>>}

\* salts generate_salt may have returned
PinSalts == Salts \cup {"s3"}

SecurityInit ==
    /\ schema = "scoped"
    /\ records_new = FALSE
    /\ records = {}
    /\ seq = 0
    /\ users = <<>>
    /\ settings = <<>>
    /\ env_pepper = <<>>
    /\ session = [s \in Sessions |-> NoSession]
    /\ pc = [s \in Sessions |-> Idle]
    /\ out = Outcome("start", None, 0, "ok")
    /\ clock = 0
    /\ bundle = NoBundle
    /\ call = NoCall

HashPin(pin, salt) ==
    /\ call' = [fn |-> "hash_pin", args |-> [pin |-> pin, salt |-> salt, hashed |-> pin],
                result |-> hash_pin(pin, salt)]
    /\ UNCHANGED <<dbvars, appvars, out, clock, bundle>>

\* verify_pin(pin, salt, expected_hash), expected_hash being hash_pin(hashed, salt)
VerifyPin(pin, salt, hashed) ==
    /\ call' = [fn |-> "verify_pin", args |-> [pin |-> pin, salt |-> salt, hashed |-> hashed],
                result |-> verify_pin(pin, salt, hash_pin(hashed, salt))]
    /\ UNCHANGED <<dbvars, appvars, out, clock, bundle>>

SecurityNext ==
    \/ \E pin \in PinInputs, salt \in PinSalts : HashPin(pin, salt)
    \/ \E pin \in PinInputs, salt \in PinSalts, hashed \in PinInputs : VerifyPin(pin, salt, hashed)

SecuritySpec == SecurityInit /\ [][SecurityNext]_vars

(***************************************************************************)
(* app/analytics.py                                                        *)
(* AnalyticsSpec: summarize_glucose called on tables of readings           *)
(***************************************************************************)
\* a float that is the quotient of two integers
Ratio(num, den) == [kind |-> "ratio", num |-> num, den |-> den]

\* rows of glucose_df: value_mg_dl, and recorded_at as the number of days before now
ReadingRows == [value_mg_dl : {65, 90, 210}, days_ago : {1, 10}]

\* the tables of at most MaxReadings rows
GlucoseTables == UNION {[1..n -> ReadingRows] : n \in 0..MaxReadings}

\* target_low, target_high, hypo_threshold, hyper_threshold: the values of the test,
\* and values that readings are equal to
ThresholdSets ==
    { [target_low |-> 70, target_high |-> 180, hypo_threshold |-> 70, hyper_threshold |-> 200],
      [target_low |-> 90, target_high |-> 210, hypo_threshold |-> 65, hyper_threshold |-> 210] }

RECURSIVE SeriesSum(_)
SeriesSum(series) ==
    IF series = <<>> THEN 0 ELSE series[1] + SeriesSum(Tail(series))

RECURSIVE SeriesMin(_)
SeriesMin(series) ==
    IF Len(series) = 1 THEN series[1]
    ELSE LET m == SeriesMin(Tail(series)) IN IF series[1] < m THEN series[1] ELSE m

RECURSIVE SeriesMax(_)
SeriesMax(series) ==
    IF Len(series) = 1 THEN series[1]
    ELSE LET m == SeriesMax(Tail(series)) IN IF series[1] > m THEN series[1] ELSE m

\* _mean_or_none
mean_or_none(series) ==
    IF series = <<>> THEN PyNone ELSE Ratio(SeriesSum(series), Len(series))

\* (values <= threshold).sum()
count_below_or_equal(values, threshold) ==
    Cardinality({i \in DOMAIN values : values[i] <= threshold})

\* (values < threshold).sum()
count_below(values, threshold) ==
    Cardinality({i \in DOMAIN values : values[i] < threshold})

\* (values > threshold).sum()
count_above(values, threshold) ==
    Cardinality({i \in DOMAIN values : values[i] > threshold})

\* values.between(low, high, inclusive="both").mean() * 100.0
in_range_pct(values, low, high) ==
    Ratio(100 * Cardinality({i \in DOMAIN values : low <= values[i] /\ values[i] <= high}),
          Len(values))

\* df.loc[df["recorded_at"] >= now - days, "value_mg_dl"]
within_days(df, days) ==
    LET keep == SelectSeq(df, LAMBDA row : row.days_ago <= days)
    IN  [i \in DOMAIN keep |-> keep[i].value_mg_dl]

\* summarize_glucose
summarize_glucose(glucose_df, target_low, target_high, hypo_threshold, hyper_threshold) ==
    IF glucose_df = <<>>
    THEN [avg_7d |-> PyNone, avg_14d |-> PyNone, avg_30d |-> PyNone, minimum |-> PyNone,
          maximum |-> PyNone, in_range_pct |-> Ratio(0, 1), hypo_count |-> 0, hyper_count |-> 0]
    ELSE LET values == [i \in DOMAIN glucose_df |-> glucose_df[i].value_mg_dl]
         IN  [avg_7d |-> mean_or_none(within_days(glucose_df, 7)),
              avg_14d |-> mean_or_none(within_days(glucose_df, 14)),
              avg_30d |-> mean_or_none(within_days(glucose_df, 30)),
              minimum |-> PyNum(SeriesMin(values)),
              maximum |-> PyNum(SeriesMax(values)),
              in_range_pct |-> in_range_pct(values, target_low, target_high),
              hypo_count |-> count_below(values, hypo_threshold),
              hyper_count |-> count_above(values, hyper_threshold)]

AnalyticsInit ==
    /\ schema = "scoped"
    /\ records_new = FALSE
    /\ records = {}
    /\ seq = 0
    /\ users = <<>>
    /\ settings = <<>>
    /\ env_pepper = <<>>
    /\ session = [s \in Sessions |-> NoSession]
    /\ pc = [s \in Sessions |-> Idle]
    /\ out = Outcome("start", None, 0, "ok")
    /\ clock = 0
    /\ bundle = NoBundle
    /\ call = NoCall

\* one call of summarize_glucose; it keeps nothing from one call to the next
SummarizeGlucose(glucose_df, th) ==
    /\ call.fn = "none"
    /\ call' = [fn |-> "summarize_glucose", args |-> [glucose_df |-> glucose_df, th |-> th],
                result |-> summarize_glucose(glucose_df, th.target_low, th.target_high,
                                             th.hypo_threshold, th.hyper_threshold)]
    /\ UNCHANGED <<dbvars, appvars, out, clock, bundle>>

AnalyticsNext == \E glucose_df \in GlucoseTables, th \in ThresholdSets : SummarizeGlucose(glucose_df, th)

AnalyticsSpec == AnalyticsInit /\ [][AnalyticsNext]_vars

(***************************************************************************)
(* RaceSpec: two sessions of one owner each call has_duplicate and then    *)
(* save_record for the same (owner, record_type, recorded_at), as the      *)
(* edit_glucose_form handler does, in every interleaving                   *)
(***************************************************************************)
\* the owner, and the key of the owner's sessions
RaceOwner == "p1"

RaceKey == build_fernet(Pin1234, "s1", DefaultPepper)

\* a stored glucose record of the owner
RaceRow(id, at) == NewRow(id, RaceOwner, "glucose", at, [value_mg_dl |-> PyNum(90)], RaceKey)

\* the table before the two sessions start
RaceStores == { {}, {RaceRow(1, T1)}, {RaceRow(1, T2)}, {RaceRow(1, T2), RaceRow(2, T1)} }

\* what session s writes
RacePayload(s) == [value_mg_dl |-> PyNum(100 + s)]

\* position of session s: before has_duplicate, before save_record, or finished
Position(stage, id) == [stage |-> stage, id |-> id, at |-> T1, kept |-> NoKept]

RaceInit ==
    /\ schema = "scoped"
    /\ records_new = FALSE
    /\ records \in RaceStores
    /\ seq = MaxOf({r.id : r \in records})
    /\ users = <<>>
    /\ settings = <<>>
    /\ env_pepper = <<>>
    /\ session = [s \in Sessions |-> NoSession]
    /\ pc = [s \in Sessions |-> Idle]
    /\ out = Outcome("start", None, 0, "ok")
    /\ clock = 0
    /\ bundle = NoBundle
    /\ call = NoCall

\* session s starts to save under the triple: a new record (record_id 0, None in
\* the code) or the stored record with id record_id
RaceBegin(s, record_id) ==
    /\ pc[s] = Idle
    /\ record_id = 0 \/ \E r \in records : r.id = record_id
    /\ pc' = [pc EXCEPT ![s] = Position("check", record_id)]
    /\ out' = Outcome("race_begin", RaceOwner, record_id, "ok")
    /\ UNCHANGED <<dbvars, env_pepper, session, auxvars>>

\* session s calls has_duplicate; it goes on to save_record when the answer is False
RaceCheck(s) ==
    /\ pc[s].stage = "check"
    /\ IF has_duplicate(RaceOwner, "glucose", pc[s].at, pc[s].id)
       THEN /\ pc' = [pc EXCEPT ![s] = Position("refused", pc[s].id)]
            /\ out' = Outcome("race_check", RaceOwner, pc[s].id, "True")
       ELSE /\ pc' = [pc EXCEPT ![s] = Position("save", pc[s].id)]
            /\ out' = Outcome("race_check", RaceOwner, pc[s].id, "False")
    /\ UNCHANGED <<dbvars, env_pepper, session, auxvars>>

\* session s calls save_record. A session that is between its check and its save at
\* this moment is from now on at "save_second": it checked before this save and
\* saves after it.
RaceSave(s) ==
    LET res == save_record(RaceOwner, "glucose", pc[s].at, RacePayload(s), RaceKey, pc[s].id)
    IN  /\ pc[s].stage \in {"save", "save_second"}
        /\ pc[s].id = 0 => seq < MaxId
        /\ records' = res.records
        /\ seq' = res.seq
        /\ pc' = [t \in Sessions |->
                    IF t = s THEN Position(IF res.status = "ok" THEN "saved" ELSE "failed", pc[s].id)
                    ELSE IF pc[t].stage = "save" THEN Position("save_second", pc[t].id)
                    ELSE pc[t]]
        /\ out' = Outcome(IF pc[s].stage = "save" THEN "race_save" ELSE "race_save_second",
                          RaceOwner, pc[s].id, res.status)
        /\ UNCHANGED <<schema, records_new, users, settings, env_pepper, session, auxvars>>

RaceNext ==
    \/ \E s \in Sessions, record_id \in 0..MaxId : RaceBegin(s, record_id)
    \/ \E s \in Sessions : RaceCheck(s)
    \/ \E s \in Sessions : RaceSave(s)

RaceSpec == RaceInit /\ [][RaceNext]_vars

(***************************************************************************)
(* RecommendationSpec: glucose_recommendation of streamlit_app.py, called  *)
(* by glucose_form with the saved reading and the four sidebar thresholds  *)
(***************************************************************************)
\* readings the widget of glucose_form allows (min_value=20, max_value=600)
RecommendationValues == {20, 53, 54, 60, 75, 100, 155, 170, 200, 260, 600}

\* thresholds the four number_input widgets of the sidebar allow: each is bounded
\* on its own and nothing relates one to another
SidebarThresholds ==
    [target_low : {40, 70, 80, 120, 160},
     target_high : {100, 180, 300},
     hypo_threshold : {40, 70, 100},
     hyper_threshold : {150, 250, 500}]

glucose_recommendation(value_mg_dl, target_low, target_high, hypo_threshold, hyper_threshold) ==
    IF value_mg_dl < 54
    THEN [level |-> "error", text |-> "Glucosa muy baja"]
    ELSE IF value_mg_dl < hypo_threshold
    THEN [level |-> "warning", text |-> "Glucosa baja"]
    ELSE IF target_low <= value_mg_dl /\ value_mg_dl <= target_high
    THEN [level |-> "success", text |-> "Valor en rango objetivo"]
    ELSE IF value_mg_dl <= hyper_threshold
    THEN [level |-> "info", text |-> "Valor elevado"]
    ELSE [level |-> "error", text |-> "Glucosa muy elevada"]

RecommendationInit ==
    /\ schema = "scoped"
    /\ records_new = FALSE
    /\ records = {}
    /\ seq = 0
    /\ users = <<>>
    /\ settings = <<>>
    /\ env_pepper = <<>>
    /\ session = [s \in Sessions |-> NoSession]
    /\ pc = [s \in Sessions |-> Idle]
    /\ out = Outcome("start", None, 0, "ok")
    /\ clock = 0
    /\ bundle = NoBundle
    /\ call = NoCall

\* one call of glucose_recommendation; it keeps nothing from one call to the next
GlucoseRecommendation(value_mg_dl, th) ==
    /\ call.fn = "none"
    /\ call' = [fn |-> "glucose_recommendation",
                args |-> [value_mg_dl |-> value_mg_dl, th |-> th],
                result |-> glucose_recommendation(value_mg_dl, th.target_low, th.target_high,
                                                  th.hypo_threshold, th.hyper_threshold)]
    /\ UNCHANGED <<dbvars, appvars, out, clock, bundle>>

RecommendationNext ==
    \E value_mg_dl \in RecommendationValues, th \in SidebarThresholds :
        GlucoseRecommendation(value_mg_dl, th)

RecommendationSpec == RecommendationInit /\ [][RecommendationNext]_vars

(***************************************************************************)
(* Claims on app/db.py, checked under Spec                                 *)
(***************************************************************************)
OfOwner(rows, owner) == {r \in rows : r.owner = owner}

MetaKeys == {"id", "owner", "record_type", "recorded_at"}

\* C1: in the owner-scoped table no two records share (owner, record_type,
\* recorded_at), and a save_record that would put a second row on an existing
\* triple (an insert, or an update of an existing row onto another row's triple)
\* raises IntegrityError and leaves table and id counter as they were.
C1_UniqueTriple ==
    schema = "scoped" =>
        /\ UniqueTriples(records)
        /\ \A o \in Owners, t \in ApiTypes, at \in ApiTimes, p \in ApiPayloads, k \in ApiKeys,
              id \in 0..MaxId :
              LET res == save_record(o, t, at, p, k, id)
              IN  ( /\ id = 0 \/ \E r \in records : r.id = id
                    /\ \E r \in records : r.id # id /\ Triple(r) = <<o, t, at>> )
                  => /\ res.status = "IntegrityError"
                     /\ res.records = records
                     /\ res.seq = seq

\* an update of an existing row onto another row's triple was refused
C1_Witness ==
    /\ out.op = "update"
    /\ out.status = "IntegrityError"
    /\ \E r \in records : r.id = out.id
    /\ Cardinality(records) >= 2

\* C2: load_records(A, key, type) returns only records of A: the owner field of
\* every returned record is A and every returned record is a row stored under A.
C2_LoadOnlyOwner ==
    \A a \in ApiOwners, k \in ApiKeys, t \in ApiTypes \cup {None} :
        \A res \in load_records(a, k, t) :
            \A i \in DOMAIN res :
                /\ res[i]["owner"] = PyStr(a)
                /\ \E r \in OfOwner(records, a) : res[i] = LoadedRow(r, k)

\* C3: no save_record or delete_record called with owner B changes the records
\* stored under another owner A.
C3_WritesScoped ==
    schema = "scoped" =>
        \A a \in Owners, b \in Owners :
            a # b =>
                /\ \A t \in ApiTypes, at \in ApiTimes, p \in ApiPayloads, k \in ApiKeys, id \in 0..MaxId :
                      OfOwner(save_record(b, t, at, p, k, id).records, a) = OfOwner(records, a)
                /\ \A id \in 1..MaxId :
                      OfOwner(delete_record(id, b).records, a) = OfOwner(records, a)

\* C4: delete_record(id, owner=B) changes nothing when the row with that id belongs
\* to another owner (load_records of that owner selects the same rows), removes
\* exactly that row when it belongs to B, and never removes any other row.
C4_DeleteScoped ==
    schema = "scoped" =>
        \A id \in 1..MaxId, b \in ApiOwners :
            LET res == delete_record(id, b)
            IN  /\ res.status = "ok"
                /\ res.records \subseteq records
                /\ \A r \in records \ res.records : r.id = id /\ r.owner = b
                /\ \A r \in records : r.id = id /\ r.owner # b =>
                      /\ res.records = records
                      /\ r \in res.records
                /\ \A r \in records : r.id = id /\ r.owner = b => res.records = records \ {r}

\* delete_record was called with an owner on another owner's row, and the row is there
C4_Witness ==
    /\ schema = "scoped"
    /\ out.op = "delete_record"
    /\ out.status = "ok"
    /\ out.who # None
    /\ \E r \in records : r.id = out.id /\ r.owner # out.who

\* the record load_records should return for row r saved with payload p
IsRecordOf(d, r, p) ==
    /\ DOMAIN d = MetaKeys \cup DOMAIN p
    /\ d["id"] = PyNum(r.id)
    /\ d["owner"] = PyStr(r.owner)
    /\ d["record_type"] = PyStr(r.record_type)
    /\ d["recorded_at"] = PyStr(r.recorded_at)
    /\ \A k \in DOMAIN p \ MetaKeys : d[k] = p[k]

\* C7: after save_record(owner, type, at, P, K) succeeds, whatever list
\* load_records(owner, K, type) returns contains a record with the row's id, owner,
\* record_type and recorded_at and, besides these, exactly the fields of P.
C7_RoundTrip ==
    [][ (out'.op \in {"insert", "update"} /\ out'.status = "ok") =>
          \A r \in records' \ records : \A p \in ApiPayloads :
              r.payload_encrypted = Encrypt(r.payload_encrypted.key, JsonDumps(p)) =>
                  \A t \in {r.record_type, None} :
                      \A res \in (load_records(r.owner, r.payload_encrypted.key, t))' :
                          \E i \in DOMAIN res : IsRecordOf(res[i], r, p) ]_vars

\* C8: load_records returns no list at all (InvalidToken) when a selected row does
\* not decrypt under the key; a list it returns holds every selected row.
C8_NoSilentDrop ==
    schema = "scoped" =>
        \A o \in ApiOwners, k \in ApiKeys \cup {LegacyKey}, t \in ApiTypes \cup {None} :
            LET sel == Selected(o, t)
            IN  /\ (\E r \in sel : ~Decrypts(k, r.payload_encrypted)) =>
                      /\ load_records(o, k, t) = {}
                      /\ load_status(o, k, t) = "InvalidToken"
                /\ \A res \in load_records(o, k, t) :
                      /\ Len(res) = Cardinality(sel)
                      /\ \A r \in sel : \E i \in DOMAIN res : res[i] = LoadedRow(r, k)

\* load_records failed on an owner who has rows under two different keys, so a
\* subset of the rows would have decrypted
C8_Witness ==
    /\ out.op = "load_records"
    /\ out.status = "InvalidToken"
    /\ \E r1, r2 \in OfOwner(records, out.who) : r1.payload_encrypted.key # r2.payload_encrypted.key

\* C15: init_db run on a legacy table (no owner column) ends with the owner-scoped
\* table holding every legacy row, unchanged but for owner = 'legacy', whatever the
\* legacy rows are; run on an owner-scoped table it changes nothing.
C15_MigrationPreserves ==
    [][ out'.op = "init_db" =>
          /\ schema = "legacy" =>
                /\ schema' = "scoped"
                /\ records' = {[r EXCEPT !.owner = LegacyOwner] : r \in records}
                /\ Cardinality(records') = Cardinality(records)
          /\ schema = "scoped" =>
                /\ schema' = "scoped"
                /\ records' = records
                /\ seq' = seq ]_vars

\* the instant a recorded_at text names, as a rank: T1s and T1 are the same instant
InstantRank(t) == CASE t = T1s -> 1 [] t = T1 -> 1 [] t = T2 -> 2

\* C16: the list load_records(owner, key, type) returns holds exactly the stored
\* records of the owner (of that type when one is given), each once, with the id,
\* owner, record_type and recorded_at of its row, and is ordered by recorded_at
\* from the newest to the oldest.
C16_LoadExactOrdered ==
    \A o \in ApiOwners, k \in ApiKeys, t \in ApiTypes \cup {None} :
        \A res \in load_records(o, k, t) :
            LET stored == {r \in records : r.owner = o /\ (t # None => r.record_type = t)}
                Is(d, r) == /\ d["id"] = PyNum(r.id)
                            /\ d["owner"] = PyStr(r.owner)
                            /\ d["record_type"] = PyStr(r.record_type)
                            /\ d["recorded_at"] = PyStr(r.recorded_at)
            IN  /\ Len(res) = Cardinality(stored)
                /\ \A r \in stored : Cardinality({i \in DOMAIN res : Is(res[i], r)}) = 1
                /\ \A i \in DOMAIN res : \E r \in stored : Is(res[i], r)
                /\ \A i, j \in DOMAIN res :
                      i < j => InstantRank(res[i]["recorded_at"].s) >= InstantRank(res[j]["recorded_at"].s)

(***************************************************************************)
(* Claims on the handlers of streamlit_app.py, checked under AppSpec       *)
(***************************************************************************)
AllPins == LoginPins \cup CreatePins

\* the pepper get_app_pepper returns under a value of APP_PEPPER
PepperOf(env) == IF env # <<>> THEN env ELSE DefaultPepper

\* the fields the edit form keeps, as the new-glucose form stored them
FormKept ==
    [symptoms |-> PyStr(""), meds_taken |-> PyList(<<>>), insulin_units |-> PyNone, dose |-> PyStr("")]

EditedRow(r) == \E v \in EditValues : r.payload_encrypted.plain = JsonDumps(EditPayload(v, FormKept))

\* C5, in every state: has_duplicate is true exactly when another row (any row
\* without exclude_id) holds the triple; for a stored row it is false on the row's
\* own triple, where the update is accepted, and true on every other row's triple,
\* where the update would be refused by the table.
C5_HasDuplicateState ==
    /\ \A o \in Owners, at \in NowValues, x \in 0..MaxId :
          has_duplicate(o, "glucose", at, x)
            <=> \E r \in records : Triple(r) = <<o, "glucose", at>> /\ (x # 0 => r.id # x)
    /\ \A x \in records :
          /\ ~has_duplicate(x.owner, x.record_type, x.recorded_at, x.id)
          /\ \A v \in EditValues, k \in {x.payload_encrypted.key} :
                save_record(x.owner, x.record_type, x.recorded_at, EditPayload(v, FormKept), k, x.id).status = "ok"
          /\ \A y \in records \ {x} :
                /\ has_duplicate(y.owner, y.record_type, y.recorded_at, x.id)
                /\ \A v \in EditValues, k \in {x.payload_encrypted.key} :
                      save_record(y.owner, y.record_type, y.recorded_at, EditPayload(v, FormKept), k, x.id).status
                        = "IntegrityError"

\* C5, in every step of the edit handler: when has_duplicate reports the triple the
\* edit is refused and nothing is stored; when it does not, save_record is called,
\* succeeds, and a row that still exists keeps its triple and gets the new payload.
C5_EditStep ==
    \A s \in Sessions :
        /\ (pc[s].stage = "check" /\ pc'[s] # pc[s] /\ out'.op = "edit_check") =>
              IF has_duplicate(session[s].patient_code, "glucose", pc[s].at, pc[s].id)
              THEN out'.status = "duplicate" /\ pc'[s] = Idle /\ records' = records
              ELSE out'.status = "ok" /\ pc'[s].stage = "save" /\ records' = records
        /\ (pc[s].stage = "save" /\ pc'[s] # pc[s] /\ out'.op = "edit_save") =>
              /\ out'.status = "ok"
              /\ \A r \in records : r.id = pc[s].id =>
                    \E r2 \in records' :
                        /\ r2.id = r.id
                        /\ Triple(r2) = <<session[s].patient_code, "glucose", pc[s].at>>
                        /\ EditedRow(r2)
              /\ {r \in records' : r.id # pc[s].id} = {r \in records : r.id # pc[s].id}

\* C5: has_duplicate reports exactly the rows other than exclude_id that hold the
\* triple, in every state, and the edit handler refuses or saves accordingly.
C5_HasDuplicate == []C5_HasDuplicateState /\ [][C5_EditStep]_vars

\* the edit of a row onto its own triple was saved while another row exists
C5_Witness ==
    /\ out.op = "edit_save"
    /\ out.status = "ok"
    /\ \E r \in records : EditedRow(r)
    /\ Cardinality(records) >= 2

\* C6: a new-glucose submission whose triple already exists is refused with the
\* duplicate error of has_duplicate, before any insert, and the store is unchanged.
C6_DuplicateReported ==
    [][ (out'.op = "glucose_form" /\ out'.status \notin {"ok", "invalid"}) =>
            (out'.status = "duplicate" /\ records' = records /\ seq' = seq) ]_vars

\* C9: the key of an authenticated session is the one derived from the account's
\* PIN, its stored salt and the pepper in force, whatever the number of logins; so
\* every record of the account saved under that pepper decrypts in the session (and
\* load_records returns when all were), while the keys under two peppers differ and
\* a record saved under another pepper does not decrypt.
C9_KeyRederived ==
    \A s \in Sessions :
        Authenticated(s) =>
            LET c == session[s].patient_code
            IN  /\ HasUser(c)
                /\ \A pin \in AllPins :
                      verify_pin(pin, users[c].pin_salt, users[c].pin_hash) =>
                          /\ session[s].fernet.secret = pin \o PepperOf(env_pepper)
                          /\ session[s].fernet.salt = users[c].pin_salt
                          /\ \A r \in OfOwner(records, c) :
                                /\ \E e \in EnvPeppers :
                                      /\ r.payload_encrypted.key.secret = pin \o PepperOf(e)
                                      /\ r.payload_encrypted.key.salt = users[c].pin_salt
                                      /\ (e = env_pepper <=> Decrypts(session[s].fernet, r.payload_encrypted))
                          /\ (\A r \in OfOwner(records, c) :
                                  r.payload_encrypted.key.secret = pin \o PepperOf(env_pepper))
                                => load_status(c, session[s].fernet, None) = "ok"
                          /\ \A e1, e2 \in EnvPeppers :
                                e1 # e2 => build_fernet(pin, users[c].pin_salt, PepperOf(e1))
                                             # build_fernet(pin, users[c].pin_salt, PepperOf(e2))

\* a login (not the account creation) gave a session the key that decrypts a
\* record saved before it
C9_Witness ==
    /\ out.op = "login"
    /\ out.status = "ok"
    /\ \E s \in Sessions :
          /\ Authenticated(s)
          /\ \E r \in OfOwner(records, session[s].patient_code) :
                Decrypts(session[s].fernet, r.payload_encrypted)

RecordOps == {"glucose_form", "view", "edit_begin", "edit_check", "edit_save", "delete_selected"}

\* C10, in every state: key, authenticated flag and patient code are present
\* together or not at all, the name only with them, and a key present is the key
\* of the session's patient.
C10_SessionState ==
    \A s \in Sessions :
        /\ session[s].authenticated <=> session[s].fernet # NoFernet
        /\ session[s].authenticated <=> session[s].patient_code # None
        /\ session[s].patient_name # None => session[s].authenticated
        /\ pc[s] # Idle => session[s].authenticated
        /\ session[s].authenticated =>
              /\ HasUser(session[s].patient_code)
              /\ \E pin \in AllPins :
                    /\ verify_pin(pin, users[session[s].patient_code].pin_salt,
                                  users[session[s].patient_code].pin_hash)
                    /\ session[s].fernet.secret = pin \o PepperOf(env_pepper)
                    /\ session[s].fernet.salt = users[session[s].patient_code].pin_salt

\* C10, in every step: a session gets a key only by a successful login or account
\* creation for its patient; a failed login changes no session; a logout button
\* empties the session; a key stays until a logout (or the end of the process); and
\* a record operation runs only in a session that holds a key.
C10_SessionStep ==
    /\ \A s \in Sessions :
          /\ (session[s].fernet = NoFernet /\ session'[s].fernet # NoFernet) =>
                /\ out'.op \in {"login", "create_account"}
                /\ out'.status = "ok"
                /\ out'.who = session'[s].patient_code
          /\ (session[s].fernet # NoFernet /\ session'[s] # session[s]) =>
                /\ out'.op \in {"logout_switch", "logout_close", "restart"}
                /\ session'[s] = NoSession
    /\ (out'.op \in {"login", "create_account"} /\ out'.status # "ok") => session' = session
    /\ out'.op \in {"logout_switch", "logout_close"} =>
          \E s \in Sessions :
              /\ session[s].fernet # NoFernet
              /\ session' = [session EXCEPT ![s] = NoSession]
    /\ (out'.op \in RecordOps \/ records' # records) =>
          \E s \in Sessions :
              /\ session[s].fernet # NoFernet
              /\ session[s].patient_code = out'.who
              /\ session'[s] = session[s]

\* C10: a session holds a key only between a successful authentication and the
\* next logout, and record operations run only in sessions that hold one.
C10_SessionKey == []C10_SessionState /\ [][C10_SessionStep]_vars

\* a logout button emptied the last session after records were saved
C10_Witness ==
    /\ out.op \in {"logout_switch", "logout_close"}
    /\ \A s \in Sessions : session[s] = NoSession
    /\ records # {}

C12_ScopesDisjoint ==
    [][ call'.fn = "set_setting" =>
          \A k \in SettingKeys, o \in SettingOwners :
              <<o, k>> # <<call'.args.owner, call'.args.key>> =>
                  /\ scoped_key(k, o) # scoped_key(call'.args.key, call'.args.owner)
                  /\ get_setting(settings', k, None, o) = get_setting(settings, k, None, o) ]_vars

(***************************************************************************)
(* Claims on the accounts, checked under AppSpec                           *)
(***************************************************************************)
\* C13, in every state: a users row holds, besides the name and the consent, only
\* the salt and the verification hash of the PIN the account was created with:
\* no column holds the PIN or the encryption key derived from it.
C13_UserRow ==
    \A c \in DOMAIN users :
        /\ DOMAIN users[c] = {"patient_name", "pin_salt", "pin_hash", "consent"}
        /\ users[c].patient_name \in {NameOr(n, c) : n \in RawNames}
        /\ users[c].pin_salt \in Salts
        /\ users[c].consent = "true"
        /\ \E pin \in AllPins : users[c].pin_hash = hash_pin(pin, users[c].pin_salt)
        /\ \A pin \in AllPins, e \in EnvPeppers :
              users[c].pin_hash # build_fernet(pin, users[c].pin_salt, PepperOf(e))
        /\ \A s \in Sessions : users[c].pin_hash # session[s].fernet

\* C13, in every step: an existing users row is never changed or removed; a row
\* appears only by a successful account creation for a code that had none; and an
\* attempt for a code that has an account is rejected as existing, users unchanged.
C13_UserStep ==
    /\ \A c \in DOMAIN users : c \in DOMAIN users' /\ users'[c] = users[c]
    /\ users' # users =>
          /\ out'.op = "create_account"
          /\ out'.status = "ok"
          /\ out'.who \notin DOMAIN users
          /\ DOMAIN users' = DOMAIN users \cup {out'.who}
    /\ (out' # out /\ out'.op = "create_account" /\ out'.who \in DOMAIN users) =>
          /\ out'.status = "exists"
          /\ users' = users

\* C13: there is one users row per patient code, an account is never overwritten
\* by a later creation attempt, and the row stores salt and hash, not PIN or key.
C13_AccountUnique == []C13_UserRow /\ [][C13_UserStep]_vars

\* an account creation was rejected because the code has an account
C13_Witness ==
    /\ out.op = "create_account"
    /\ out.status = "exists"
    /\ out.who \in DOMAIN users

(***************************************************************************)
(* Claims on app/security.py, checked under SecuritySpec                   *)
(***************************************************************************)
\* C14: verify_pin(S', T, hash_pin(S, T)) returns true when S' = S and false for
\* every S' other than S.
C14_VerifyExact ==
    call.fn = "verify_pin" =>
        /\ call.result \in BOOLEAN
        /\ call.result <=> (call.args.pin = call.args.hashed)

(***************************************************************************)
(* Claims on app/validation.py and its callers, checked under AppSpec      *)
(***************************************************************************)
\* C17, in every state: validate_pin accepts a PIN exactly when it has at least 4
\* characters and all of them are digits, and gives a message exactly when it
\* rejects; every stored account was created with a PIN validate_pin accepts.
C17_PinState ==
    /\ \A pin \in PinInputs :
          /\ validate_pin(pin) <=> (Len(pin) >= 4 /\ {pin[i] : i \in DOMAIN pin} \subseteq Digits)
          /\ validate_pin(pin) <=> validate_pin_message(pin) = ""
    /\ \A c \in DOMAIN users :
          \E pin \in PinInputs :
              /\ Len(pin) >= 4
              /\ {pin[i] : i \in DOMAIN pin} \subseteq Digits
              /\ users[c].pin_hash = hash_pin(pin, users[c].pin_salt)

\* C17, in every step: an account creation refused for its PIN stores nothing.
C17_PinStep ==
    (out' # out /\ out'.op = "create_account" /\ out'.status = "bad_pin") =>
        /\ users' = users
        /\ settings' = settings
        /\ session' = session

GlucoseInputs == {0, 19, 20, 21, 110, 599, 600, 601, 700}

\* C18, in every state: validate_glucose_value accepts a value exactly when it is
\* at least 20 and at most 600.
C18_GlucoseState ==
    \A value \in GlucoseInputs \cup GlucoseValues :
        validate_glucose_value(value) <=> (20 <= value /\ value <= 600)

\* C18, in every step: a new-glucose submission with a rejected value saves nothing,
\* and a record the form saves holds a value from 20 to 600.
C18_GlucoseStep ==
    /\ (out' # out /\ out'.op = "glucose_form" /\ out'.status = "invalid") =>
          /\ records' = records
          /\ seq' = seq
    /\ (out'.op = "glucose_form" /\ records' # records) =>
          \A r \in records' \ records :
              LET value == JsonLoads(r.payload_encrypted.plain)["value_mg_dl"].n
              IN  20 <= value /\ value <= 600

\* C18: validate_glucose_value accepts exactly the values from 20 to 600, both
\* included, and the new-glucose form saves no record for a rejected value.
C18_ValidateGlucose == []C18_GlucoseState /\ [][C18_GlucoseStep]_vars

\* a new-glucose submission was rejected for its value while records exist
C18_Witness ==
    /\ out.op = "glucose_form"
    /\ out.status = "invalid"
    /\ records # {}

(***************************************************************************)
(* Claims on app/analytics.py, checked under AnalyticsSpec                 *)
(***************************************************************************)
\* C19: for a table with readings, minimum and maximum are the smallest and the
\* largest value of all rows whatever their date, hypo_count counts the values
\* strictly below hypo_threshold, hyper_count those strictly above hyper_threshold,
\* and in_range_pct is 100 times the share of values from target_low to target_high,
\* both included; for an empty table there are no averages, no minimum, no maximum,
\* 0 percent and counts of zero.
C19_Summary ==
    call.fn = "summarize_glucose" =>
        LET df == call.args.glucose_df
            th == call.args.th
            res == call.result
            rows == DOMAIN df
        IN  IF df = <<>>
            THEN /\ res.avg_7d = PyNone /\ res.avg_14d = PyNone /\ res.avg_30d = PyNone
                 /\ res.minimum = PyNone /\ res.maximum = PyNone
                 /\ res.in_range_pct.num = 0
                 /\ res.hypo_count = 0 /\ res.hyper_count = 0
            ELSE /\ \E i \in rows : res.minimum = PyNum(df[i].value_mg_dl)
                 /\ \A i \in rows : res.minimum.n <= df[i].value_mg_dl
                 /\ \E i \in rows : res.maximum = PyNum(df[i].value_mg_dl)
                 /\ \A i \in rows : res.maximum.n >= df[i].value_mg_dl
                 /\ res.hypo_count = Cardinality({i \in rows : df[i].value_mg_dl < th.hypo_threshold})
                 /\ res.hyper_count = Cardinality({i \in rows : df[i].value_mg_dl > th.hyper_threshold})
                 /\ res.in_range_pct.den > 0
                 /\ res.in_range_pct.num * Cardinality(rows) =
                       100 * res.in_range_pct.den
                           * Cardinality({i \in rows : /\ th.target_low <= df[i].value_mg_dl
                                                        /\ df[i].value_mg_dl <= th.target_high})

\* a table was summarized that has a value equal to hypo_threshold, one equal to
\* target_high and one older than the 7-day window that is the minimum
C19_Witness ==
    /\ call.fn = "summarize_glucose"
    /\ Len(call.args.glucose_df) >= 2
    /\ \E i \in DOMAIN call.args.glucose_df :
          call.args.glucose_df[i].value_mg_dl = call.args.th.hypo_threshold
    /\ \E i \in DOMAIN call.args.glucose_df :
          call.args.glucose_df[i].value_mg_dl = call.args.th.target_high
    /\ \E i \in DOMAIN call.args.glucose_df :
          /\ call.args.glucose_df[i].days_ago > 7
          /\ call.result.minimum = PyNum(call.args.glucose_df[i].value_mg_dl)
    /\ call.result.hypo_count = 0

(***************************************************************************)
(* Claims on concurrent sessions, checked under RaceSpec                   *)
(***************************************************************************)
\* rows that hold the triple the two sessions save under
RaceTriple == {r \in records : Triple(r) = <<RaceOwner, "glucose", T1>>}

\* session s is about to make the second save of a run in which both checks came
\* before either save, t being the other session
SecondSave(s, t) ==
    /\ s # t
    /\ pc[s].stage = "save_second"
    /\ pc'[s].stage \in {"saved", "failed"}
    /\ pc[t].stage \in {"saved", "failed"}

\* C20 as stated: the table never holds two rows with the triple; and when both
\* checks ran before either save, the first save is stored and the second fails
\* with the uniqueness violation and leaves the table as the first writer left it.
C20_SecondSaveFails ==
    /\ [](Cardinality(RaceTriple) <= 1)
    /\ [][ \A s, t \in Sessions :
              SecondSave(s, t) =>
                  /\ pc[t].stage = "saved"
                  /\ pc'[s].stage = "failed"
                  /\ out'.status = "IntegrityError"
                  /\ records' = records ]_vars

\* C20, amended, in every step: when both checks ran before either save, two
\* inserts end with one stored and the second refused by the UNIQUE constraint;
\* two updates of the same stored record both succeed and the second replaces what
\* the first wrote; in every case a refused save changes nothing, an accepted
\* insert finds no row on the triple and keeps every row, and an accepted update
\* changes no row but the one with its record id.
C20_RaceStep ==
    \A s, t \in Sessions :
        SecondSave(s, t) =>
            /\ (pc[s].id = 0 /\ pc[t].id = 0) =>
                  /\ pc[t].stage = "saved"
                  /\ pc'[s].stage = "failed"
                  /\ out'.status = "IntegrityError"
                  /\ records' = records
                  /\ \E r \in records : r.payload_encrypted.plain = JsonDumps(RacePayload(t))
            /\ (pc[s].id # 0 /\ pc[s].id = pc[t].id /\ \E r \in records : r.id = pc[s].id) =>
                  /\ pc[t].stage = "saved"
                  /\ pc'[s].stage = "saved"
                  /\ \E r \in records : r.id = pc[s].id /\ r.payload_encrypted.plain = JsonDumps(RacePayload(t))
                  /\ \E r \in records' : r.id = pc[s].id /\ r.payload_encrypted.plain = JsonDumps(RacePayload(s))
                  /\ \A r \in records' : r.payload_encrypted.plain # JsonDumps(RacePayload(t))
            /\ pc'[s].stage = "failed" => (out'.status = "IntegrityError" /\ records' = records)
            /\ pc'[s].stage = "saved" =>
                  IF pc[s].id = 0
                  THEN RaceTriple = {} /\ records \subseteq records'
                  ELSE {r \in records' : r.id # pc[s].id} = {r \in records : r.id # pc[s].id}

\* C20, amended: the table never holds two rows with the triple; when both checks
\* ran before either save, the second of two inserts fails with the uniqueness
\* violation, while the second of two updates of one record overwrites the first.
C20_RaceOutcome == [](Cardinality(RaceTriple) <= 1) /\ [][C20_RaceStep]_vars

\* both sessions checked, then both inserted: the second insert was refused and
\* the first writer's row is the one stored
C20_Witness ==
    /\ out.op = "race_save_second"
    /\ out.id = 0
    /\ out.status = "IntegrityError"
    /\ \A s \in Sessions : pc[s].id = 0 /\ pc[s].stage \in {"saved", "failed"}
    /\ Cardinality(RaceTriple) = 1

(***************************************************************************)
(* Claims on glucose_recommendation, checked under RecommendationSpec      *)
(***************************************************************************)
\* C21: for every reading and every choice of the sidebar thresholds, the
\* recommendation "info" (elevated value) and the last "error" (very elevated)
\* are returned only for a value above target_high, and "success" only for a
\* value from target_low to target_high, both included.
C21_NoHighAdviceBelowRange ==
    call.fn = "glucose_recommendation" =>
        LET value == call.args.value_mg_dl
            th == call.args.th
            res == call.result
        IN  /\ (res.level = "info" \/ res.text = "Glucosa muy elevada") => value > th.target_high
            /\ res.level = "success" => (th.target_low <= value /\ value <= th.target_high)

====
